---- MODULE Spec2Model ----
(***************************************************************************)
(* Model of dockerscope.go: an Image bound to a source tar archive and a   *)
(* working-copy directory under /tmp, and SetName, which rewrites the      *)
(* "repositories" file of the archive under a file lock.                   *)
(*                                                                         *)
(* The file system is part of the state: the source archives, the          *)
(* directories under /tmp and the flock(2) lock of each archive path.      *)
(* Each Image is used by one caller at a time, so an Image is also the     *)
(* thread of control of the call it is running (pc).                       *)
(***************************************************************************)
EXTENDS Integers, Sequences, FiniteSets, TLC

(***************************************************************************)
(* Bounds.                                                                 *)
(***************************************************************************)
\* rand.Intn(100000000) scaled down: the number of names randomFilename can return.
RandSpace == 2
\* Number of operations (SetName, readLayers) a caller starts on one Image.
MaxOps == 2

(***************************************************************************)
(* Names.                                                                  *)
(***************************************************************************)
layerConfigFile == "json"
imageConfigFile == "repositories"
latestLayerKey == "latest"

Images == {"i1", "i2"}
\* Paths a caller may pass to NewImage: two archives, a gzip file, and two paths where
\* no file exists, one of them with the extension .gz.
ArchivePaths == {"a.tar", "b.tar"}
GzPaths == {"c.tar.gz", "gone.tar.gz"}
MissingPaths == {"missing.tar", "gone.tar.gz"}
AllPaths == ArchivePaths \cup GzPaths \cup MissingPaths
NewNames == {"n1", "n2"}
Dirs == 0 .. (RandSpace - 1)
NoOne == "nobody"
NoDir == -1
NoPath == "nopath"

\* Files of an extracted image, in the lexical order of a directory walk.
FileOrder == <<"A/json", "B/json", imageConfigFile>>
FileNames == {FileOrder[k] : k \in 1 .. Len(FileOrder)}
LayerFiles == FileNames \ {imageConfigFile}

\* filepath.Split / filepath.Base of a walked path.
FileOf(f) == IF f = imageConfigFile THEN imageConfigFile ELSE layerConfigFile
LayerIdOf(f) == CASE f = "A/json" -> "A" [] f = "B/json" -> "B" [] OTHER -> "tmp"

\* Lexical order of the JSON keys in use (json.Marshal writes map keys sorted).
KeyOrder == <<"created", "latest", "n1", "n2", "old", "other", "v1">>
Rank(key) == CHOOSE k \in 1 .. Len(KeyOrder) : KeyOrder[k] = key

(***************************************************************************)
(* File bodies.  A body is [json, obj]: json says whether the bytes parse  *)
(* as a JSON object, obj is the object's members in file order.            *)
(***************************************************************************)
NoBody == [json |-> FALSE, obj |-> <<>>]
Garbage == [json |-> FALSE, obj |-> <<>>]
Object(members) == [json |-> TRUE, obj |-> members]

\* created codes: > 0 an RFC 3339 time, 0 a string that is no RFC 3339 time, -1 not a string.
LayerConfig(t) == Object(<<<<"created", t>>>>)

ObjKeys(s) == {s[k][1] : k \in 1 .. Len(s)}
ObjGet(s, key) == s[CHOOSE k \in 1 .. Len(s) : s[k][1] = key /\ \A m \in (k + 1) .. Len(s) : s[m][1] # key][2]
SortKeys(S) == CHOOSE s \in [1 .. Cardinality(S) -> S] : \A a, b \in 1 .. Cardinality(S) : a < b => Rank(s[a]) < Rank(s[b])

\* json.Unmarshal into a map: the last occurrence of a duplicate key wins.
Unmarshal(members) == [key \in ObjKeys(members) |-> ObjGet(members, key)]
\* json.Marshal of a map: one member per key, keys sorted.
Marshal(map) == [k \in 1 .. Cardinality(DOMAIN map) |-> <<SortKeys(DOMAIN map)[k], map[SortKeys(DOMAIN map)[k]]>>]
\* A nested object decoded into interface{} and encoded again.
Reencode(members) == Marshal(Unmarshal(members))

(***************************************************************************)
(* Archives and directories.  An archive is the sequence of its entries    *)
(* [name, body]; a directory is [exists, names, body].                     *)
(***************************************************************************)
Entry(name, b) == [name |-> name, body |-> b]
NoDirectory == [exists |-> FALSE, names |-> {}, body |-> [f \in FileNames |-> NoBody]]
EmptyDirectory == [exists |-> TRUE, names |-> {}, body |-> [f \in FileNames |-> NoBody]]

\* Writing one file into a directory (creating the directory when extracting).
PutFile(d, name, b) == [exists |-> TRUE, names |-> d.names \cup {name}, body |-> [d.body EXCEPT ![name] = b]]

\* untar: the entries are written in archive order over whatever the directory holds.
RECURSIVE Extract(_, _)
Extract(d, entries) == IF entries = <<>> THEN [d EXCEPT !.exists = TRUE] ELSE Extract(PutFile(d, Head(entries).name, Head(entries).body), Tail(entries))

\* tarit: one entry per file of the directory, in walk order.
WalkOrder(d) == SelectSeq(FileOrder, LAMBDA f : f \in d.names)
Archive(d) == [k \in 1 .. Len(WalkOrder(d)) |-> Entry(WalkOrder(d)[k], d.body[WalkOrder(d)[k]])]

\* The repository mapping an archive holds: the body of its last "repositories" entry.
HasRepo(entries) == \E k \in 1 .. Len(entries) : entries[k].name = imageConfigFile
RepoOf(entries) == Extract(NoDirectory, entries).body[imageConfigFile]
LayerNamesOf(entries) == Extract(NoDirectory, entries).names \cap LayerFiles

(***************************************************************************)
(* Archives the model starts from.                                         *)
(***************************************************************************)
T1 == <<<<"v1", "B">>, <<"latest", "A">>>>
T2 == <<<<"latest", "B">>>>
TwoLayers == <<Entry("A/json", LayerConfig(1)), Entry("B/json", LayerConfig(2))>>
RepoEntry(members) == <<Entry(imageConfigFile, Object(members))>>

InitialA == { <<>>,
              TwoLayers,
              TwoLayers \o RepoEntry(<<<<"old", T1>>>>),
              RepoEntry(<<<<"old", T1>>, <<"other", T2>>>>),
              RepoEntry(<<>>),
              <<Entry(imageConfigFile, Garbage)>>,
              <<Entry("A/json", LayerConfig(2)), Entry("B/json", LayerConfig(0))>>,
              <<Entry("A/json", Garbage), Entry("B/json", LayerConfig(1))>>,
              <<Entry("A/json", LayerConfig(1)), Entry("B/json", LayerConfig(-1))>>,
              <<Entry("A/json", Object(<<>>)), Entry("B/json", LayerConfig(1))>>,
              <<Entry("A/json", LayerConfig(1)), Entry("B/json", LayerConfig(1))>> }
InitialB == { RepoEntry(<<<<"other", T2>>>>) }

(***************************************************************************)
(* State.                                                                  *)
(***************************************************************************)
VARIABLES
    archive,            \* archive[p]: the entries of the tar file at path p
    dirs,               \* dirs[d]: the directory /tmp/d
    lock,               \* lock[p]: the Image whose file mutex holds the flock on p
    st,                 \* st[i]: "none", "open" or "closed"
    PathToSource,       \* Image.PathToSource
    pathToWorkingCopy,  \* Image.pathToWorkingCopy
    Layers,             \* Image.Layers
    pc,                 \* where the call running on Image i stands
    op,                 \* the operation result[i] belongs to
    newName,            \* SetName's argument
    data,               \* SetName's local data: the bytes to write
    held,               \* "no", "held", or "failed" when the Lock call failed
    result,             \* what the last operation on Image i returned
    snap,               \* the source archive as it was when the running call started
    prev,               \* the last completed SetName on Image i: its name and result, whether it
                        \* held the lock, the source archive at its start and at its return
    nOps                \* operations started on Image i since NewImage

vars == <<archive, dirs, lock, st, PathToSource, pathToWorkingCopy, Layers, pc, op, newName, data, held, result, snap, prev, nOps>>

NoCall == [name |-> "", result |-> "", locked |-> FALSE, before |-> <<>>, after |-> <<>>]

\* What the callers do: i1 works on a.tar and runs up to MaxOps operations, i2 opens
\* either archive and runs one; each passes its own name.
PathsOf(i) == IF i = "i1" THEN AllPaths \ {"b.tar"} ELSE ArchivePaths
NamesOf(i) == IF i = "i1" THEN {"n1"} ELSE {"n2"}
OpsOf(i) == IF i = "i1" THEN MaxOps ELSE 1

\* Results of SetName that come from the environment failing, not from the image's contents.
EnvErrors == {"mutex failed", "untar failed", "read failed", "write failed", "tar failed"}
Idle(i) == pc[i] \in {"idle", "done"}

Init ==
    /\ \E a \in InitialA, b \in InitialB : archive = [p \in ArchivePaths |-> IF p = "a.tar" THEN a ELSE b]
    /\ dirs = [d \in Dirs |-> NoDirectory]
    /\ lock = [p \in ArchivePaths |-> NoOne]
    /\ st = [i \in Images |-> "none"]
    /\ PathToSource = [i \in Images |-> NoPath]
    /\ pathToWorkingCopy = [i \in Images |-> NoDir]
    /\ Layers = [i \in Images |-> <<>>]
    /\ pc = [i \in Images |-> "idle"]
    /\ op = [i \in Images |-> "none"]
    /\ newName = [i \in Images |-> ""]
    /\ data = [i \in Images |-> NoBody]
    /\ held = [i \in Images |-> "no"]
    /\ result = [i \in Images |-> ""]
    /\ snap = [i \in Images |-> <<>>]
    /\ prev = [i \in Images |-> NoCall]
    /\ nOps = [i \in Images |-> 0]

(***************************************************************************)
(* NewImage and Close.                                                     *)
(***************************************************************************)
\* randomFilename: any of the names rand.Intn can return.
randomFilename == Dirs

\* os.Mkdir: creates the directory; fails, leaving it alone, when it exists.
Mkdir(d) == IF dirs[d].exists THEN dirs ELSE [dirs EXCEPT ![d] = EmptyDirectory]

\* A NewImage that allocates the working directory before it validates the path.
NewImageMkdirFirst(i, pathToImage) ==
    /\ st[i] = "none"
    /\ op' = [op EXCEPT ![i] = "NewImage"]
    /\ \E tmpDirPath \in randomFilename :
         /\ dirs' = Mkdir(tmpDirPath)
         /\ IF pathToImage \in MissingPaths
            THEN /\ result' = [result EXCEPT ![i] = "no image found"]
                 /\ UNCHANGED <<st, PathToSource, pathToWorkingCopy>>
            ELSE IF pathToImage \in GzPaths
            THEN /\ result' = [result EXCEPT ![i] = "must be uncompressed"]
                 /\ UNCHANGED <<st, PathToSource, pathToWorkingCopy>>
            ELSE /\ st' = [st EXCEPT ![i] = "open"]
                 /\ PathToSource' = [PathToSource EXCEPT ![i] = pathToImage]
                 /\ pathToWorkingCopy' = [pathToWorkingCopy EXCEPT ![i] = tmpDirPath]
                 /\ result' = [result EXCEPT ![i] = "ok"]
    /\ UNCHANGED <<archive, lock, Layers, pc, newName, data, held, snap, prev, nOps>>

NewImage(i, pathToImage) ==
    /\ st[i] = "none"
    /\ op' = [op EXCEPT ![i] = "NewImage"]
    /\ IF pathToImage \in MissingPaths
       THEN /\ result' = [result EXCEPT ![i] = "no image found"]
            /\ UNCHANGED <<dirs, st, PathToSource, pathToWorkingCopy>>
       ELSE IF pathToImage \in GzPaths
       THEN /\ result' = [result EXCEPT ![i] = "must be uncompressed"]
            /\ UNCHANGED <<dirs, st, PathToSource, pathToWorkingCopy>>
       ELSE \E tmpDirPath \in randomFilename :
            /\ dirs' = Mkdir(tmpDirPath)
            /\ st' = [st EXCEPT ![i] = "open"]
            /\ PathToSource' = [PathToSource EXCEPT ![i] = pathToImage]
            /\ pathToWorkingCopy' = [pathToWorkingCopy EXCEPT ![i] = tmpDirPath]
            /\ result' = [result EXCEPT ![i] = "ok"]
    /\ UNCHANGED <<archive, lock, Layers, pc, newName, data, held, snap, prev, nOps>>

\* A removal that deletes the files but leaves the directory itself.
RemoveContents(d) == [dirs EXCEPT ![d] = IF @.exists THEN EmptyDirectory ELSE @]

\* os.RemoveAll: no error when the directory is already gone.
RemoveAll(d) == [dirs EXCEPT ![d] = NoDirectory]

Close(i) ==
    /\ st[i] \in {"open", "closed"}
    /\ Idle(i)
    /\ dirs' = RemoveAll(pathToWorkingCopy[i])
    /\ st' = [st EXCEPT ![i] = "closed"]
    /\ op' = [op EXCEPT ![i] = "Close"]
    /\ result' = [result EXCEPT ![i] = "ok"]
    /\ prev' = [prev EXCEPT ![i] = NoCall]
    /\ UNCHANGED <<archive, lock, PathToSource, pathToWorkingCopy, Layers, pc, newName, data, held, snap, nOps>>

(***************************************************************************)
(* Layers: ByCreated, latestLayer, readLayers.                             *)
(***************************************************************************)
Layer(id, created) == [Id |-> id, Created |-> created]

\* An ordering that puts the earliest layer first.
LessEarliestFirst(a, b) == a.Created < b.Created

\* ByCreated.Less: a[i].Created.After(a[j].Created).
Less(a, b) == a.Created > b.Created

IndexPermutations(n) == {q \in [1 .. n -> 1 .. n] : \A a, b \in 1 .. n : a # b => q[a] # q[b]}
\* sort.Sort(ByCreated(ls)) is not stable: any arrangement in which no element is Less than one before it.
SortByCreated(ls) == {[k \in 1 .. Len(ls) |-> ls[q[k]]] : q \in {r \in IndexPermutations(Len(ls)) : \A a, b \in 1 .. Len(ls) : a < b => ~Less(ls[r[b]], ls[r[a]])}}

\* A walk function that takes whatever value `created` has.
ParseLayerAnyCreated(b) == IF ~b.json THEN "bad json" ELSE IF "created" \notin ObjKeys(b.obj) THEN "bad created" ELSE "ok"

\* readLayers' walk function on one layer config file: "ok" or the error.
ParseLayer(b) ==
    IF ~b.json THEN "bad json"
    ELSE IF "created" \notin ObjKeys(b.obj) THEN "bad created"
    ELSE IF Unmarshal(b.obj)["created"] < 0 THEN "bad created"
    ELSE IF Unmarshal(b.obj)["created"] = 0 THEN "bad time"
    ELSE "ok"

\* The files filepath.Walk visits whose base name is layerConfigFile, in walk order.
ConfigFiles(d) == SelectSeq(WalkOrder(d), LAMBDA f : FileOf(f) = layerConfigFile)
WalkLayers(d) == [k \in 1 .. Len(ConfigFiles(d)) |-> Layer(LayerIdOf(ConfigFiles(d)[k]), Unmarshal(d.body[ConfigFiles(d)[k]].obj)["created"])]

readLayers(i) ==
    /\ st[i] = "open"
    /\ Idle(i)
    /\ op' = [op EXCEPT ![i] = "readLayers"]
    /\ nOps[i] < OpsOf(i)
    /\ nOps' = [nOps EXCEPT ![i] = @ + 1]
    /\ prev' = [prev EXCEPT ![i] = NoCall]
    /\ LET d == dirs[pathToWorkingCopy[i]]
       IN \/ /\ \A k \in 1 .. Len(ConfigFiles(d)) : ParseLayer(d.body[ConfigFiles(d)[k]]) = "ok"
             /\ Layers' = [Layers EXCEPT ![i] = WalkLayers(d)]
             /\ result' = [result EXCEPT ![i] = "ok"]
          \/ /\ \E k \in 1 .. Len(ConfigFiles(d)) : ParseLayer(d.body[ConfigFiles(d)[k]]) # "ok"
             /\ result' = [result EXCEPT ![i] = "layer error"]
             /\ UNCHANGED Layers
          \/ \* ioutil.ReadFile of a config file fails
             /\ Len(ConfigFiles(d)) > 0
             /\ result' = [result EXCEPT ![i] = "layer error"]
             /\ UNCHANGED Layers
    /\ UNCHANGED <<archive, dirs, lock, st, PathToSource, pathToWorkingCopy, pc, newName, data, held, snap>>

(***************************************************************************)
(* SetName.  One action per step at which another call can interleave.     *)
(***************************************************************************)
WorkingCopy(i) == dirs[pathToWorkingCopy[i]]

\* A deferred Unlock that is not run on return.
UnlockSkipped(i) == lock

\* An Unlock called after tarit instead of deferred: the error returns skip it.
UnlockAfterTar(i) == IF pc[i] = "tar" THEN [p \in ArchivePaths |-> IF lock[p] = i THEN NoOne ELSE lock[p]] ELSE lock

\* m.Unlock(): releases the flock if this call holds it.
Unlock(i) == [p \in ArchivePaths |-> IF lock[p] = i THEN NoOne ELSE lock[p]]

\* A return of SetName after the defer statement: the deferred Unlock runs.
Return(i, r, after) ==
    /\ pc' = [pc EXCEPT ![i] = "done"]
    /\ result' = [result EXCEPT ![i] = r]
    /\ lock' = Unlock(i)
    /\ held' = [held EXCEPT ![i] = "no"]
    /\ data' = [data EXCEPT ![i] = NoBody]
    /\ snap' = [snap EXCEPT ![i] = <<>>]
    /\ prev' = [prev EXCEPT ![i] = [name |-> newName[i], result |-> r, locked |-> held[i] = "held", before |-> snap[i], after |-> after]]

\* The caller enters SetName(newName); filemutex.New(i.PathToSource) opens the file, and
\* an error from it returns before the defer statement.
SetName(i, name) ==
    /\ st[i] = "open"
    /\ Idle(i)
    /\ nOps[i] < OpsOf(i)
    /\ nOps' = [nOps EXCEPT ![i] = @ + 1]
    /\ op' = [op EXCEPT ![i] = "SetName"]
    /\ newName' = [newName EXCEPT ![i] = name]
    /\ \/ /\ pc' = [pc EXCEPT ![i] = "lock"]
          /\ snap' = [snap EXCEPT ![i] = archive[PathToSource[i]]]
          /\ prev' = [prev EXCEPT ![i] = IF @.result = "ok" /\ @.name = name THEN @ ELSE NoCall]
          /\ UNCHANGED <<lock, held, result, data>>
       \/ /\ pc' = [pc EXCEPT ![i] = "done"]
          /\ result' = [result EXCEPT ![i] = "mutex failed"]
          /\ prev' = [prev EXCEPT ![i] = [name |-> name, result |-> "mutex failed", locked |-> FALSE, before |-> archive[PathToSource[i]], after |-> archive[PathToSource[i]]]]
          /\ UNCHANGED <<lock, held, snap, data>>
    /\ UNCHANGED <<archive, dirs, st, PathToSource, pathToWorkingCopy, Layers>>

\* m.Lock() blocks until the flock on the path is free and takes it.
LockGranted(i) ==
    /\ pc[i] = "lock"
    /\ lock[PathToSource[i]] = NoOne
    /\ lock' = [lock EXCEPT ![PathToSource[i]] = i]
    /\ held' = [held EXCEPT ![i] = "held"]
    /\ pc' = [pc EXCEPT ![i] = "untar"]
    /\ UNCHANGED <<archive, dirs, st, PathToSource, pathToWorkingCopy, Layers, op, newName, data, result, snap, prev, nOps>>

\* m.Lock() fails (flock returns an error).  SetName does not look at what Lock
\* returns: with a Lock that returns the error the call goes on without the lock,
\* with a Lock that panics the call never returns.
LockFailed(i) ==
    /\ pc[i] = "lock"
    /\ held' = [held EXCEPT ![i] = "failed"]
    /\ \/ pc' = [pc EXCEPT ![i] = "untar"]
       \/ pc' = [pc EXCEPT ![i] = "panicked"]
    /\ UNCHANGED <<archive, dirs, lock, st, PathToSource, pathToWorkingCopy, Layers, op, newName, data, result, snap, prev, nOps>>

\* A step of SetName that does not return.
Goto(i, label) ==
    /\ pc' = [pc EXCEPT ![i] = label]
    /\ UNCHANGED <<lock, held, result, prev, snap>>

\* untar(i.PathToSource, i.pathToWorkingCopy).
Untar(i) ==
    /\ pc[i] = "untar"
    /\ \/ /\ dirs' = [dirs EXCEPT ![pathToWorkingCopy[i]] = Extract(@, archive[PathToSource[i]])]
          /\ Goto(i, "stat")
          /\ UNCHANGED data
       \/ /\ Return(i, "untar failed", archive[PathToSource[i]])
          /\ UNCHANGED dirs
    /\ UNCHANGED <<archive, st, PathToSource, pathToWorkingCopy, Layers, op, newName, nOps>>

\* latestLayer: the possible <<Layers after the call, layer returned>> pairs; empty set for the error.
latestLayer(ls) == IF Len(ls) = 0 THEN {} ELSE {<<s, s[1]>> : s \in SortByCreated(ls)}

\* os.Stat(repoPath), and the branch that creates a new repository file.
StatRepo(i) ==
    /\ pc[i] = "stat"
    /\ IF WorkingCopy(i).exists /\ imageConfigFile \in WorkingCopy(i).names
       THEN /\ Goto(i, "read")
            /\ UNCHANGED <<Layers, data>>
       ELSE IF latestLayer(Layers[i]) = {}
       THEN /\ Return(i, "no layers", archive[PathToSource[i]])
            /\ UNCHANGED Layers
       ELSE \E r \in latestLayer(Layers[i]) :
            /\ Layers' = [Layers EXCEPT ![i] = r[1]]
            /\ data' = [data EXCEPT ![i] = Object(Marshal([n \in {newName[i]} |-> Marshal([t \in {latestLayerKey} |-> r[2].Id])]))]
            /\ Goto(i, "write")
    /\ UNCHANGED <<archive, dirs, st, PathToSource, pathToWorkingCopy, op, newName, nOps>>

\* len(repo) > 1 is rejected.
TooMany(repo) == Cardinality(DOMAIN repo) > 1

\* A re-keying that adds the new name and keeps the old entries.
RekeyKeepingOld(repo, name) == IF DOMAIN repo = {} THEN {[n \in {} |-> <<>>]} ELSE {[n \in DOMAIN repo \cup {name} |-> Reencode(repo[k])] : k \in DOMAIN repo}

\* for _, v := range repo { newImageName[newName] = v }: the maps the loop can leave.
Rekey(repo, name) == IF DOMAIN repo = {} THEN {[n \in {} |-> <<>>]} ELSE {[n \in {name} |-> Reencode(repo[k])] : k \in DOMAIN repo}

\* ioutil.ReadFile of the repository file, json.Unmarshal, re-keying, json.Marshal.
ReadRepo(i) ==
    /\ pc[i] = "read"
    /\ LET d == WorkingCopy(i)
           b == d.body[imageConfigFile]
       IN \/ Return(i, "read failed", archive[PathToSource[i]])
          \/ /\ d.exists /\ imageConfigFile \in d.names
             /\ IF ~b.json \/ TooMany(Unmarshal(b.obj))
                THEN Return(i, "schema", archive[PathToSource[i]])
                ELSE \E newImageName \in Rekey(Unmarshal(b.obj), newName[i]) :
                     /\ data' = [data EXCEPT ![i] = Object(Marshal(newImageName))]
                     /\ Goto(i, "write")
    /\ UNCHANGED <<archive, dirs, st, PathToSource, pathToWorkingCopy, Layers, op, newName, nOps>>

\* A WriteFile whose path is built from PathToSource: the bytes replace the source archive.
WriteRepoToSource(i) ==
    /\ pc[i] = "write"
    /\ \/ /\ archive' = [archive EXCEPT ![PathToSource[i]] = <<Entry(imageConfigFile, data[i])>>]
          /\ Goto(i, "tar")
          /\ UNCHANGED data
       \/ /\ Return(i, "write failed", archive[PathToSource[i]])
          /\ UNCHANGED archive
    /\ UNCHANGED <<dirs, st, PathToSource, pathToWorkingCopy, Layers, op, newName, nOps>>

\* ioutil.WriteFile(repoPath, data, 0644).
WriteRepo(i) ==
    /\ pc[i] = "write"
    /\ \/ /\ WorkingCopy(i).exists
          /\ dirs' = [dirs EXCEPT ![pathToWorkingCopy[i]] = PutFile(@, imageConfigFile, data[i])]
          /\ Goto(i, "tar")
          /\ UNCHANGED data
       \/ /\ Return(i, "write failed", archive[PathToSource[i]])
          /\ UNCHANGED dirs
    /\ UNCHANGED <<archive, st, PathToSource, pathToWorkingCopy, Layers, op, newName, nOps>>

\* tarit(i.pathToWorkingCopy, i.PathToSource), and the return that follows it.
TarIt(i) ==
    /\ pc[i] = "tar"
    /\ \/ /\ WorkingCopy(i).exists
          /\ archive' = [archive EXCEPT ![PathToSource[i]] = Archive(WorkingCopy(i))]
          /\ Return(i, "ok", Archive(WorkingCopy(i)))
       \/ /\ UNCHANGED archive
          /\ Return(i, "tar failed", archive[PathToSource[i]])
    /\ UNCHANGED <<dirs, st, PathToSource, pathToWorkingCopy, Layers, op, newName, nOps>>

Next ==
    \/ \E i \in Images : \E p \in PathsOf(i) : NewImage(i, p)
    \/ \E i \in Images : Close(i)
    \/ \E i \in Images : readLayers(i)
    \/ \E i \in Images : \E n \in NamesOf(i) : SetName(i, n)
    \/ \E i \in Images : LockGranted(i)
    \/ \E i \in Images : LockFailed(i)
    \/ \E i \in Images : Untar(i)
    \/ \E i \in Images : StatRepo(i)
    \/ \E i \in Images : ReadRepo(i)
    \/ \E i \in Images : WriteRepo(i)
    \/ \E i \in Images : TarIt(i)

Spec == Init /\ [][Next]_vars

(***************************************************************************)
(* Vocabulary of the properties.                                           *)
(***************************************************************************)
\* The repository mapping of an archive: name -> (tag -> layer id).
Mapping(entries) == [n \in ObjKeys(RepoOf(entries).obj) |-> Unmarshal(ObjGet(RepoOf(entries).obj, n))]
ParsedRepo(entries) == HasRepo(entries) /\ RepoOf(entries).json

\* The layers of an archive and the ids of those created last.
LayersOf(entries) == WalkLayers(Extract(NoDirectory, entries))
ValidLayers(entries) == \A f \in LayerNamesOf(entries) : ParseLayer(Extract(NoDirectory, entries).body[f]) = "ok"
LatestIds(entries) == {LayersOf(entries)[k].Id : k \in {m \in 1 .. Len(LayersOf(entries)) : \A o \in 1 .. Len(LayersOf(entries)) : LayersOf(entries)[o].Created <= LayersOf(entries)[m].Created}}

\* Image i has returned from SetName, and not with an error of the environment.
Returned(i) == op[i] = "SetName" /\ pc[i] = "done"
Settled(i) == Returned(i) /\ prev[i].result \notin EnvErrors

\* The section between starting extraction and finishing re-archiving.
SectionLabels == {"untar", "stat", "read", "write", "tar"}
InSection(i) == pc[i] \in SectionLabels

(***************************************************************************)
(* C1: first-time tagging.  SetName(newName) on a freshly opened Image     *)
(* whose archive has N > 0 layer config files and no repository file       *)
(* succeeds, and the archive's mapping becomes {newName: {"latest": L}},   *)
(* L the id of the layer created last.                                     *)
(***************************************************************************)
C1_FirstTagging ==
    \A i \in Images :
        (Settled(i) /\ nOps[i] = 1 /\ ~HasRepo(prev[i].before) /\ LayerNamesOf(prev[i].before) # {} /\ ValidLayers(prev[i].before))
        => /\ prev[i].result = "ok"
           /\ ParsedRepo(prev[i].after)
           /\ \E L \in LatestIds(prev[i].before) : Mapping(prev[i].after) = [n \in {prev[i].name} |-> [t \in {latestLayerKey} |-> L]]

(***************************************************************************)
(* C2: retagging an archive whose repository file has exactly one entry    *)
(* {old: T} succeeds and yields exactly {newName: T}.                      *)
(***************************************************************************)
OneEntry(entries) == ParsedRepo(entries) /\ Len(RepoOf(entries).obj) = 1
C2_RetagPreservesTags ==
    \A i \in Images :
        (Settled(i) /\ OneEntry(prev[i].before))
        => /\ prev[i].result = "ok"
           /\ ParsedRepo(prev[i].after)
           /\ \E old \in DOMAIN Mapping(prev[i].before) : Mapping(prev[i].after) = [n \in {prev[i].name} |-> Mapping(prev[i].before)[old]]

(***************************************************************************)
(* C3: mutual exclusion.  At most one SetName call at a time is between    *)
(* starting extraction of a source path and finishing re-archiving into    *)
(* it, and a call in that section holds the lock of its path.              *)
(***************************************************************************)
C3_MutualExclusion ==
    /\ \A i \in Images : InSection(i) => lock[PathToSource[i]] = i
    /\ \A i, j \in Images : (i # j /\ InSection(i) /\ InSection(j)) => PathToSource[i] # PathToSource[j]

(***************************************************************************)
(* C4: whenever a SetName call that acquired the lock has returned, by     *)
(* success or by any error return, it no longer holds the lock.            *)
(***************************************************************************)
C4_LockReleased == \A i \in Images : Idle(i) => \A p \in ArchivePaths : lock[p] # i
C4_Witness == \E i \in Images : Returned(i) /\ prev[i].locked /\ prev[i].result = "tar failed"

(***************************************************************************)
(* C5: if the lock cannot be acquired (creating the mutex fails or the     *)
(* Lock call fails), SetName returns an error and does not proceed: no     *)
(* extraction, no write of the repository file, no re-archive.             *)
(***************************************************************************)
C5_NoLockNoProgress ==
    \A i \in Images :
        /\ held[i] = "failed" => (~InSection(i) /\ pc[i] # "panicked")
        /\ (Returned(i) /\ ~prev[i].locked) => prev[i].result \in {"mutex failed"}

(***************************************************************************)
(* C6: failure atomicity.  A SetName call that returns an error before     *)
(* the re-archive step leaves the source archive as it was: no step of     *)
(* SetName other than the re-archive step changes a source archive.        *)
(***************************************************************************)
C6_SourceUntouchedBeforeTar ==
    [][\A p \in ArchivePaths : archive'[p] # archive[p] => \E i \in Images : pc[i] = "tar" /\ PathToSource[i] = p]_vars
C6_Witness == \E i \in Images : Returned(i) /\ prev[i].locked /\ prev[i].result = "schema" /\ prev[i].after = prev[i].before /\ archive[PathToSource[i]] = prev[i].before

(***************************************************************************)
(* C7: SetName on an archive whose repository file has more than one       *)
(* top-level name returns a schema error and leaves the source archive     *)
(* unmodified.                                                             *)
(***************************************************************************)
ManyNames(entries) == ParsedRepo(entries) /\ Cardinality(ObjKeys(RepoOf(entries).obj)) > 1
C7_ManyNamesRejected ==
    \A i \in Images :
        (Settled(i) /\ ManyNames(prev[i].before)) => (prev[i].result = "schema" /\ prev[i].after = prev[i].before)

(***************************************************************************)
(* C8: SetName on an archive with no repository file and zero layers       *)
(* returns the no-layers error and leaves the source archive unchanged.    *)
(***************************************************************************)
C8_NoLayersRejected ==
    \A i \in Images :
        (Settled(i) /\ ~HasRepo(prev[i].before) /\ LayerNamesOf(prev[i].before) = {})
        => (prev[i].result = "no layers" /\ prev[i].after = prev[i].before)

(***************************************************************************)
(* C9: idempotence.  If SetName(n) succeeded, an immediately following     *)
(* SetName(n) on the same Image succeeds too and leaves the archive's      *)
(* mapping equal to the mapping after the first call.                      *)
(***************************************************************************)
C9_RetagIdempotent ==
    [][\A i \in Images :
          (pc[i] \in SectionLabels /\ pc'[i] = "done" /\ prev[i].result = "ok" /\ prev[i].name = newName[i] /\ prev'[i].result \notin EnvErrors)
          => /\ prev'[i].result = "ok"
             /\ ParsedRepo(prev'[i].after)
             /\ Mapping(prev'[i].after) = Mapping(prev[i].after)]_vars

(***************************************************************************)
(* C10: any two open Images have different working-copy directories.       *)
(***************************************************************************)
C10_WorkingCopiesDistinct ==
    \A i, j \in Images : (i # j /\ st[i] = "open" /\ st[j] = "open") => pathToWorkingCopy[i] # pathToWorkingCopy[j]

(***************************************************************************)
(* C11: NewImage on a path where no file exists returns the not-found      *)
(* error, and on an existing path with the extension .gz the               *)
(* unsupported-format error; in both cases no Image is returned and no     *)
(* working directory is created.  (A missing path is reported as not       *)
(* found whatever its extension: that check comes first.)                  *)
(***************************************************************************)
NoImage(i) == st'[i] = "none" /\ PathToSource'[i] = NoPath /\ pathToWorkingCopy'[i] = NoDir /\ dirs' = dirs
C11_NewImageValidation ==
    [][\A i \in Images : \A p \in AllPaths :
          NewImage(i, p) =>
             /\ p \in MissingPaths => (result'[i] = "no image found" /\ NoImage(i))
             /\ p \in GzPaths \ MissingPaths => (result'[i] = "must be uncompressed" /\ NoImage(i))]_vars
C11_Witness == \E i \in Images : op[i] = "NewImage" /\ result[i] = "must be uncompressed" /\ st[i] = "none" /\ \E j \in Images : st[j] = "open"

(***************************************************************************)
(* C12: round trip of layers.  Extracting, re-archiving and extracting     *)
(* again finds the same layer config files with the same contents: no      *)
(* SetName adds, removes or alters a layer of a source archive.            *)
(***************************************************************************)
LayerView(entries) == [f \in LayerNamesOf(entries) |-> Extract(NoDirectory, entries).body[f]]
C12_LayersPreserved == [][\A p \in ArchivePaths : LayerView(archive'[p]) = LayerView(archive[p])]_vars

BothRetagged(i, j) ==
    /\ i # j /\ PathToSource[i] = PathToSource[j]
    /\ Returned(i) /\ Returned(j)
    /\ prev[i].result = "ok" /\ prev[j].result = "ok"
    /\ OneEntry(prev[i].before) /\ OneEntry(prev[j].before)
Proceed(i) == Untar(i) \/ StatRepo(i) \/ ReadRepo(i) \/ WriteRepo(i) \/ TarIt(i)

NextGranted ==
    \/ \E i \in Images : \E p \in PathsOf(i) : NewImage(i, p)
    \/ \E i \in Images : Close(i)
    \/ \E i \in Images : readLayers(i)
    \/ \E i \in Images : \E n \in NamesOf(i) : SetName(i, n)
    \/ \E i \in Images : LockGranted(i)
    \/ \E i \in Images : Untar(i)
    \/ \E i \in Images : StatRepo(i)
    \/ \E i \in Images : ReadRepo(i)
    \/ \E i \in Images : WriteRepo(i)
    \/ \E i \in Images : TarIt(i)

LiveSpec == Init /\ [][NextGranted]_vars /\ \A i \in Images : WF_vars(Proceed(i)) /\ SF_vars(LockGranted(i))

(***************************************************************************)
(* C15: no deadlock of later attempts.  Every SetName call waiting for     *)
(* the lock eventually acquires it and eventually returns, also when       *)
(* earlier calls on the same path failed at any step.                      *)
(***************************************************************************)
C15_WaiterReturns ==
    \A i \in Images :
        /\ (pc[i] = "lock") ~> (held[i] = "held")
        /\ (pc[i] = "lock") ~> (pc[i] = "done")
\* A call waits for a lock that another call holds, after a call on that path failed.
C15_Witness ==
    \E i, j \in Images :
        /\ i # j /\ pc[i] = "lock" /\ lock[PathToSource[i]] = j
        /\ InSection(j)
        /\ result[j] \in {"untar failed", "no layers", "read failed", "schema", "write failed", "tar failed"}

(***************************************************************************)
(* C16: after every successful SetName(newName) the repository file of     *)
(* the source archive has exactly one top-level entry, and its key is      *)
(* newName, whatever the file held before (also an object without          *)
(* entries).                                                               *)
(***************************************************************************)
C16_OneEntryAfterSuccess ==
    \A i \in Images :
        (Returned(i) /\ prev[i].result = "ok")
        => /\ ParsedRepo(prev[i].after)
           /\ DOMAIN Mapping(prev[i].after) = {prev[i].name}
           /\ Len(RepoOf(prev[i].after).obj) = 1

(***************************************************************************)
(* C17: readLayers is all-or-nothing.  When every layer config file of the *)
(* working copy is a JSON object with a string `created` holding an RFC    *)
(* 3339 time (and can be read), Layers becomes exactly one Layer per       *)
(* config file, with the id of its directory and its time, whatever Layers *)
(* held; when some config file is not, readLayers returns an error; and    *)
(* whenever it returns an error Layers is what it was.                     *)
(***************************************************************************)
WellFormed(b) == b.json /\ \E k \in 1 .. Len(b.obj) : b.obj[k][1] = "created" /\ ObjGet(b.obj, "created") > 0
ConfigsIn(d) == d.names \cap LayerFiles
Scanned(d) == {Layer(LayerIdOf(f), ObjGet(d.body[f].obj, "created")) : f \in ConfigsIn(d)}
Malformed(d) == \E f \in ConfigsIn(d) : ~WellFormed(d.body[f])

C17_ReadLayersAllOrNothing ==
    [][\A i \in Images :
          readLayers(i) =>
             /\ result'[i] \in {"ok", "layer error"}
             /\ Malformed(WorkingCopy(i)) => result'[i] = "layer error"
             /\ result'[i] = "layer error" => Layers'[i] = Layers[i]
             /\ result'[i] = "ok" =>
                   /\ {Layers'[i][k] : k \in 1 .. Len(Layers'[i])} = Scanned(WorkingCopy(i))
                   /\ Len(Layers'[i]) = Cardinality(ConfigsIn(WorkingCopy(i)))]_vars

\* readLayers has failed on a working copy holding a well-formed and a malformed layer.
C17_Witness ==
    \E i \in Images :
        /\ op[i] = "readLayers"
        /\ result[i] = "layer error"
        /\ Layers[i] = <<>>
        /\ Malformed(WorkingCopy(i))
        /\ \E f \in ConfigsIn(WorkingCopy(i)) : WellFormed(WorkingCopy(i).body[f])

(***************************************************************************)
(* C18: latestLayer, as SetName calls it when the working copy has no      *)
(* repository file.  On a non-empty Layers it returns a layer of Layers    *)
(* whose Created is not earlier than any other's and leaves Layers a       *)
(* permutation of what it was, most recent first; on an empty Layers it    *)
(* returns the error and leaves Layers as it was.                          *)
(***************************************************************************)
CallsLatestLayer(i) == StatRepo(i) /\ pc'[i] # "read"
TaggedId(b, name) == ObjGet(ObjGet(b.obj, name), latestLayerKey)
MostRecentFirst(ls) == \A a, b \in 1 .. Len(ls) : a < b => ls[a].Created >= ls[b].Created
PermutationOf(ls, ms) == Len(ls) = Len(ms) /\ \E q \in IndexPermutations(Len(ms)) : \A k \in 1 .. Len(ms) : ls[k] = ms[q[k]]

C18_LatestLayer ==
    [][\A i \in Images :
          CallsLatestLayer(i) =>
             /\ Layers[i] = <<>> => (pc'[i] = "done" /\ result'[i] = "no layers" /\ Layers'[i] = <<>>)
             /\ Layers[i] # <<>> =>
                   /\ pc'[i] = "write"
                   /\ PermutationOf(Layers'[i], Layers[i])
                   /\ MostRecentFirst(Layers'[i])
                   /\ \E k \in 1 .. Len(Layers[i]) :
                         /\ Layers[i][k].Id = TaggedId(data'[i], newName[i])
                         /\ \A m \in 1 .. Len(Layers[i]) : Layers[i][m].Created <= Layers[i][k].Created]_vars

\* latestLayer has reordered two layers scanned earliest first and returned the later one.
C18_Witness ==
    \E i \in Images :
        /\ pc[i] = "write"
        /\ ~HasRepo(snap[i])
        /\ Len(Layers[i]) = 2
        /\ Layers[i][1].Id = "B"
        /\ Layers[i][1].Created > Layers[i][2].Created
        /\ TaggedId(data[i], newName[i]) = "B"

====
